---- MODULE Spec2Model ----
(***************************************************************************)
(* yamid: MachineId::new() on each platform family, the kernel-control     *)
(* adapter, the UUID text grammar and the canonical text form.              *)
(*                                                                         *)
(* Text is a sequence of one-character strings; "NUL" stands for the byte  *)
(* 0 of a kernel buffer.  A Uuid is its sequence of 16 bytes.              *)
(***************************************************************************)
EXTENDS Integers, Sequences, FiniteSets, TLC

\* ------------------------------------------------------------------ bounds

\* longest run of whitespace appended to a store's content
MaxTrail == 2
\* calls of MachineId::new() in one run
MaxCalls == 2

\* ------------------------------------------------------------- characters

LowerDigits == <<"0","1","2","3","4","5","6","7","8","9","a","b","c","d","e","f">>
UpperDigits == <<"0","1","2","3","4","5","6","7","8","9","A","B","C","D","E","F">>

\* char::is_whitespace, on the characters the stores of the model hold
IsWhitespace(ch) == ch \in {" ", "\n", "\r", "\t"}

IsHexDigit(ch) == \E i \in 1..16 : LowerDigits[i] = ch \/ UpperDigits[i] = ch

HexVal(ch) == (CHOOSE i \in 1..16 : LowerDigits[i] = ch \/ UpperDigits[i] = ch) - 1

\* ------------------------------------------------------- Result<T, E> values

Ok(v) == [ok |-> TRUE, val |-> v]
Err(e) == [ok |-> FALSE, err |-> e]

\* error::Error, the two variants
IoError(e) == [kind |-> "IoError", err |-> e]
InvalidUuid == [kind |-> "InvalidUuid"]
\* Ok(MachineId(uuid))
MachineId(uuid) == [kind |-> "Ok", uuid |-> uuid]

\* std::io::Error values: an ErrorKind, or a raw OS error code
IoKind(k) == [kind |-> k]
RawOsError(code) == [os |-> code]

\* ------------------------------------------------------------ str::trim_end

\* a slip: drops one trailing line feed and nothing else
trim_end_keep1(s) ==
    IF Len(s) > 0 /\ s[Len(s)] = "\n" THEN SubSeq(s, 1, Len(s) - 1) ELSE s

RECURSIVE trim_end(_)
\* str::trim_end: drops every trailing whitespace character
trim_end(s) ==
    IF Len(s) > 0 /\ IsWhitespace(s[Len(s)])
    THEN trim_end(SubSeq(s, 1, Len(s) - 1))
    ELSE s

\* --------------------------------------------------------- Uuid::parse_str

AllHex(s) == \A i \in 1..Len(s) : IsHexDigit(s[i])

\* 32 hexadecimal digits to 16 bytes
HexToBytes(s) == [i \in 1..16 |-> HexVal(s[2 * i - 1]) * 16 + HexVal(s[2 * i])]

\* 8-4-4-4-12 groups: the hyphens' positions in a 36-character text
HyphenAt == {9, 14, 19, 24}

StripHyphens(s) ==
    SubSeq(s, 1, 8) \o SubSeq(s, 10, 13) \o SubSeq(s, 15, 18)
        \o SubSeq(s, 20, 23) \o SubSeq(s, 25, 36)

parse_simple(s) == IF AllHex(s) THEN Ok(HexToBytes(s)) ELSE Err("uuid")

parse_hyphenated(s) ==
    IF /\ Len(s) = 36
       /\ \A i \in HyphenAt : s[i] = "-"
       /\ AllHex(StripHyphens(s))
    THEN Ok(HexToBytes(StripHyphens(s)))
    ELSE Err("uuid")

UrnPrefix == <<"u","r","n",":","u","u","i","d",":">>

\* Uuid::parse_str: simple, hyphenated, braced and urn forms, either case
parse_str(s) ==
    CASE Len(s) = 32 -> parse_simple(s)
      [] Len(s) = 36 -> parse_hyphenated(s)
      [] Len(s) = 38 /\ s[1] = "{" /\ s[38] = "}" -> parse_hyphenated(SubSeq(s, 2, 37))
      [] Len(s) = 45 /\ SubSeq(s, 1, 9) = UrnPrefix -> parse_hyphenated(SubSeq(s, 10, 45))
      [] OTHER -> Err("uuid")

\* ------------------------------------------------------ text forms of a Uuid

HexText(uuid, digits) ==
    [i \in 1..32 |-> IF i % 2 = 1 THEN digits[(uuid[(i + 1) \div 2] \div 16) + 1]
                                  ELSE digits[(uuid[i \div 2] % 16) + 1]]

Hyphenate(h) ==
    SubSeq(h, 1, 8) \o <<"-">> \o SubSeq(h, 9, 12) \o <<"-">> \o SubSeq(h, 13, 16)
        \o <<"-">> \o SubSeq(h, 17, 20) \o <<"-">> \o SubSeq(h, 21, 32)

\* a slip: LowerHex in place of UpperHex
DisplayLower(uuid) == Hyphenate(HexText(uuid, LowerDigits))

\* impl Display for MachineId: UpperHex of the Uuid, hyphenated
Display(uuid) == Hyphenate(HexText(uuid, UpperDigits))

\* serde::Serialize of the newtype, to a JSON string: Uuid's own encoding
\* for human-readable formats (hyphenated, lower case), in quotes
to_string_json(uuid) == <<"\"">> \o Hyphenate(HexText(uuid, LowerDigits)) \o <<"\"">>

\* serde::Deserialize from a JSON string: Uuid's FromStr on the quoted text
from_str_json(s) ==
    IF Len(s) >= 2 /\ s[1] = "\"" /\ s[Len(s)] = "\""
    THEN parse_str(SubSeq(s, 2, Len(s) - 1))
    ELSE Err("json")

\* ------------------------------------------------ contents of the stores

HexA == <<"4","c","4","c","4","5","4","4","0","0","4","6","3","4","1","0",
          "8","0","5","1","b","3","c","0","4","f","3","2","5","2","3","3">>
HexB == <<"a","b","c","d","e","f","1","2","3","4","5","6","7","8","9","0",
          "1","2","3","4","5","6","7","8","9","0","1","2","3","4","5","6">>

\* the 16 bytes the two sample identifiers denote
BytesA == <<76, 76, 69, 68, 0, 70, 52, 16, 128, 81, 179, 192, 79, 50, 82, 51>>
BytesB == <<171, 205, 239, 18, 52, 86, 120, 144, 18, 52, 86, 120, 144, 18, 52, 86>>

ToUpper(ch) ==
    IF \E i \in 1..16 : LowerDigits[i] = ch
    THEN UpperDigits[CHOOSE i \in 1..16 : LowerDigits[i] = ch]
    ELSE ch

Upper(s) == [i \in 1..Len(s) |-> ToUpper(s[i])]

\* the texts that denote a sample identifier: bare or hyphenated, either case
FormsOf(h) == {h, Upper(h), Hyphenate(h), Hyphenate(Upper(h))}

ValidBodies == FormsOf(HexA) \cup {HexB, Hyphenate(Upper(HexB))}

\* texts that denote no identifier: empty, whitespace in front or inside,
\* one digit short, a letter that is no digit, hyphens out of place
BadBodies ==
    { <<>>,
      <<" ">> \o HexA,
      SubSeq(HexA, 1, 16) \o <<" ">> \o SubSeq(HexA, 17, 32),
      SubSeq(HexA, 1, 31),
      SubSeq(HexA, 1, 31) \o <<"g">>,
      SubSeq(HexA, 1, 7) \o <<"-">> \o SubSeq(HexA, 8, 32) \o <<"-", "-", "-">> }

Bodies == ValidBodies \cup BadBodies

TrailChars == {"\n", " "}

RECURSIVE Trails(_)
\* the runs of at most n trailing whitespace characters
Trails(n) ==
    IF n = 0 THEN {<<>>}
    ELSE Trails(n - 1) \cup
         {t \o <<c>> : t \in {u \in Trails(n - 1) : Len(u) = n - 1}, c \in TrailChars}

Contents == {b \o t : b \in Bodies, t \in Trails(MaxTrail)}

\* what reading a file gives: an io::Error, or the file's text
FileErrors == {Err(IoKind("NotFound")), Err(IoKind("PermissionDenied"))}

FileStates == FileErrors \cup {Ok(c) : c \in Contents}

\* the second file of a chain: empty, the other identifier, or a short one,
\* as written, with a line feed, and with a space and a line feed
FallbackContents ==
    {b \o t : b \in {<<>>, HexB, SubSeq(HexA, 1, 31)},
              t \in {<<>>, <<"\n">>, <<" ", "\n">>}}

FallbackStates == FileErrors \cup {Ok(c) : c \in FallbackContents}

PrimaryPath == "/etc/machine-id"
DbusPath == "/var/lib/dbus/machine-id"
HostidPath == "/etc/hostid"

\* ----------------------------------------------------- platform dispatch

\* a target: its target_os and its target_family (cfg(unix), cfg(windows))
Targets ==
    { [os |-> "windows", family |-> "windows"],
      [os |-> "linux",   family |-> "unix"],
      [os |-> "freebsd", family |-> "unix"],
      [os |-> "macos",   family |-> "unix"] }

\* the cfg attribute of each definition of MachineId::new
Cfg(def, t) ==
    CASE def = "windows"   -> t.family = "windows"
      [] def = "linux"     -> t.os = "linux"
      [] def = "otherunix" -> t.family = "unix" /\ t.os # "linux"
      [] def = "macos"     -> t.os = "macos"

Definitions == {"windows", "linux", "otherunix", "macos"}

\* the definitions of MachineId::new a build for target t holds
Selected(t) == {def \in Definitions : Cfg(def, t)}

\* ------------------------------------------------------------ the stores

\* Linux and other POSIX: the files, by path
LinuxStores ==
    {(PrimaryPath :> p) @@ (DbusPath :> d) : p \in FileStates, d \in FallbackStates}

\* sysctl(2) on {CTL_KERN, KERN_HOSTUUID}: 0, or -1 with errno set
\* errno values: EPERM, ENOENT, ENOMEM
Errnos == {1, 2, 12}

\* what the kernel holds for the second query: the text, its NUL, and
\* whatever follows the NUL in the buffer
KernBufs ==
    LET texts == {Hyphenate(Upper(HexA)), HexB, SubSeq(HexA, 1, 31), <<>>}
    IN  {t \o z : t \in texts, z \in {<<"NUL">>, <<"NUL", "x", "NUL">>, <<>>}}

\* r, s: the values the first and the second query return; errno: set by a
\* query that returns -1
KernStates ==
    {[r |-> -1, s |-> -1, errno |-> e, buf |-> <<>>] : e \in Errnos}
        \cup {[r |-> 0, s |-> -1, errno |-> e, buf |-> <<>>] : e \in Errnos}
        \cup {[r |-> 0, s |-> 0, errno |-> 0, buf |-> b] : b \in KernBufs}

OtherUnixStores == [kern : KernStates, files : [{HostidPath} -> FallbackStates]]

\* Windows: HKLM\SOFTWARE\Microsoft\Cryptography, value MachineGuid
WindowsStores == [registry : FileStates]

\* macOS: the handle IORegistryEntryFromPath gives (0 is MACH_PORT_NULL),
\* the IOPlatformUUID property (Null when absent) and errno
MACH_PORT_NULL == 0
RootHandles == {7}
\* a CFStringRef: null, or a string object holding a text
Null == [null |-> TRUE, text |-> <<>>]
CFString(text) == [null |-> FALSE, text |-> text]
MacosStores ==
    [root : {MACH_PORT_NULL} \cup RootHandles,
     prop : {Null} \cup {CFString(c) : c \in Contents},
     errno : Errnos]

Stores(def) ==
    CASE def = "windows"   -> WindowsStores
      [] def = "linux"     -> LinuxStores
      [] def = "otherunix" -> OtherUnixStores
      [] def = "macos"     -> MacosStores

\* -------------------------------------------------------------- the state

VARIABLES
    platform,   \* the target the crate is built for
    build,      \* the definition of MachineId::new the build holds
    store,      \* the platform's identity stores
    calls,      \* the calls of MachineId::new made: the stores each saw,
                \* what it returned and the sources it touched, in order
    shown       \* what was last printed or encoded from a MachineId

vars == <<platform, build, store, calls, shown>>

\* ---------------------------------------------------------- std::fs, libc

\* a slip: the first call leaves the file locked
read_to_string_locked(fs, path) ==
    IF Len(calls) > 0 THEN Err(IoKind("WouldBlock")) ELSE fs[path]

\* std::fs::read_to_string
read_to_string(fs, path) == fs[path]

\* the outcome of a call: what it returns and the sources it touched, in order
Outcome(result, log) == [result |-> result, log |-> log]

\* one entry of a call's log: the operation and what it gave
Did(op, res) == [op |-> op, res |-> res]

\* `?` on io::Result<String>, then Uuid::parse_str(..)? and Ok(Self(..))
Wrap(parsed) == IF parsed.ok THEN MachineId(parsed.val) ELSE InvalidUuid

\* ------------------------------------------------- MachineId::new, windows

WindowsNew(st) ==
    LET guid_str == st.registry
        log == <<Did("MachineGuid", guid_str)>>
    IN  IF ~guid_str.ok
        THEN Outcome(IoError(guid_str.err), log)
        ELSE Outcome(Wrap(parse_str(guid_str.val)), log)

\* --------------------------------------------------- MachineId::new, linux

\* a slip: whitespace alone counts as empty
NonEmptyTrimmed(data) ==
    IF trim_end(data) = <<>> THEN Err(IoKind("InvalidData")) ELSE Ok(data)

\* the and_then closure: empty content is an InvalidData error
NonEmpty(data) ==
    IF data = <<>> THEN Err(IoKind("InvalidData")) ELSE Ok(data)

\* a slip: a text that does not parse sends the call to the next file
LinuxNewRetry(st) ==
    LET first == read_to_string(st, PrimaryPath)
        checked == IF first.ok THEN NonEmpty(first.val) ELSE first
        usable == checked.ok /\ parse_str(trim_end(checked.val)).ok
        second == read_to_string(st, DbusPath)
        guid_str == IF usable THEN checked ELSE second
        log == <<Did(PrimaryPath, first)>>
                 \o (IF usable THEN <<>> ELSE <<Did(DbusPath, second)>>)
    IN  IF ~guid_str.ok
        THEN Outcome(IoError(guid_str.err), log)
        ELSE Outcome(Wrap(parse_str(trim_end(guid_str.val))), log)

\* a slip: no file readable gives the nil identifier
LinuxNewDefault(st) ==
    LET first == read_to_string(st, PrimaryPath)
        checked == IF first.ok THEN NonEmpty(first.val) ELSE first
        second == read_to_string(st, DbusPath)
        guid_str == IF checked.ok THEN checked ELSE second
        log == <<Did(PrimaryPath, first)>>
                 \o (IF checked.ok THEN <<>> ELSE <<Did(DbusPath, second)>>)
    IN  IF ~guid_str.ok
        THEN Outcome(MachineId([i \in 1..16 |-> 0]), log)
        ELSE Outcome(Wrap(parse_str(trim_end(guid_str.val))), log)

LinuxNew(st) ==
    LET first == read_to_string(st, PrimaryPath)
        checked == IF first.ok THEN NonEmpty(first.val) ELSE first
        second == read_to_string(st, DbusPath)
        guid_str == IF checked.ok THEN checked ELSE second
        log == <<Did(PrimaryPath, first)>>
                 \o (IF checked.ok THEN <<>> ELSE <<Did(DbusPath, second)>>)
    IN  IF ~guid_str.ok
        THEN Outcome(IoError(guid_str.err), log)
        ELSE Outcome(Wrap(parse_str(trim_end(guid_str.val))), log)

\* ------------------------------------------------------------- mod unix

\* unix::sysctl: the size query with a null buffer, then the read
sysctl(kern) ==
    LET size == Did("sysctl(null)", kern.r)
        read == Did("sysctl(buffer)", kern.s)
    IN  IF kern.r # 0
        THEN [res |-> Err(RawOsError(kern.r)), log |-> <<size>>]
        ELSE IF kern.s # 0
             THEN [res |-> Err(RawOsError(kern.s)), log |-> <<size, read>>]
             ELSE [res |-> Ok(kern.buf), log |-> <<size, read>>]

RECURSIVE take_while_not_nul(_)
\* take_while(|ch| *ch != 0)
take_while_not_nul(b) ==
    IF b = <<>> \/ Head(b) = "NUL" THEN <<>>
    ELSE <<Head(b)>> \o take_while_not_nul(Tail(b))

\* unix::host_uuid
host_uuid(kern) ==
    LET vec == sysctl(kern)
    IN  [res |-> IF vec.res.ok THEN Ok(take_while_not_nul(vec.res.val)) ELSE vec.res,
         log |-> vec.log]

\* ---------------------------------------------- MachineId::new, other unix

\* a slip: the kernel's error is the one returned when both sources fail
OtherUnixNewFirstErr(st) ==
    LET kernel == host_uuid(st.kern)
        file == read_to_string(st.files, HostidPath)
        id == IF kernel.res.ok THEN kernel.res
              ELSE IF file.ok THEN file ELSE kernel.res
        log == kernel.log \o <<Did("host_uuid", kernel.res)>>
                 \o (IF kernel.res.ok THEN <<>> ELSE <<Did(HostidPath, file)>>)
    IN  IF ~id.ok
        THEN Outcome(IoError(id.err), log)
        ELSE Outcome(Wrap(parse_str(trim_end(id.val))), log)

OtherUnixNew(st) ==
    LET kernel == host_uuid(st.kern)
        file == read_to_string(st.files, HostidPath)
        id == IF kernel.res.ok THEN kernel.res ELSE file
        log == kernel.log \o <<Did("host_uuid", kernel.res)>>
                 \o (IF kernel.res.ok THEN <<>> ELSE <<Did(HostidPath, file)>>)
    IN  IF ~id.ok
        THEN Outcome(IoError(id.err), log)
        ELSE Outcome(Wrap(parse_str(trim_end(id.val))), log)

\* --------------------------------------------------- MachineId::new, macos

\* a slip: the handle is released by hand, and not on the early return
MacosNewLeak(st) ==
    LET root == st.root
        lookup == Did("IORegistryEntryFromPath", root)
        uuid_cref == st.prop
        property == Did("IORegistryEntryCreateCFProperty", uuid_cref)
        release == Did("IOObjectRelease", root)
    IN  IF root = MACH_PORT_NULL
        THEN Outcome(IoError(RawOsError(st.errno)), <<lookup>>)
        ELSE IF uuid_cref.null
             THEN Outcome(IoError(RawOsError(st.errno)), <<lookup, property>>)
             ELSE Outcome(Wrap(parse_str(uuid_cref.text)), <<lookup, property, release>>)

\* ObjectReleaser is dropped where the unsafe block is left: at the early
\* return after the property lookup, or at the block's end
MacosNew(st) ==
    LET root == st.root
        lookup == Did("IORegistryEntryFromPath", root)
        uuid_cref == st.prop
        property == Did("IORegistryEntryCreateCFProperty", uuid_cref)
        release == Did("IOObjectRelease", root)
    IN  IF root = MACH_PORT_NULL
        THEN Outcome(IoError(RawOsError(st.errno)), <<lookup>>)
        ELSE IF uuid_cref.null
             THEN Outcome(IoError(RawOsError(st.errno)), <<lookup, property, release>>)
             ELSE Outcome(Wrap(parse_str(uuid_cref.text)), <<lookup, property, release>>)

\* ------------------------------------------------------------ the machine

None == [none |-> TRUE]

Init ==
    /\ platform \in Targets
    /\ build \in Selected(platform)
    /\ store \in Stores(build)
    /\ calls = <<>>
    /\ shown = None

\* a call of MachineId::new() returns: the stores it saw and its outcome
Returned(out) ==
    /\ Len(calls) < MaxCalls
    /\ calls' = Append(calls, [store |-> store, result |-> out.result, log |-> out.log])
    /\ shown' = None
    /\ UNCHANGED <<platform, build, store>>

NewWindows == build = "windows" /\ Returned(WindowsNew(store))

NewLinux == build = "linux" /\ Returned(LinuxNew(store))

NewOtherUnix == build = "otherunix" /\ Returned(OtherUnixNew(store))

NewMacos == build = "macos" /\ Returned(MacosNew(store))

\* the last call returned a MachineId
HasId == calls # <<>> /\ calls[Len(calls)].result.kind = "Ok"

LastId == calls[Len(calls)].result.uuid

\* println!("Machine id: {first}")
Fmt ==
    /\ HasId
    /\ shown = None
    /\ shown' = [id |-> LastId, text |-> Display(LastId)]
    /\ UNCHANGED <<platform, build, store, calls>>

\* serde_json::to_string(&id), then serde_json::from_str(&s)
Serde ==
    /\ HasId
    /\ shown = None
    /\ LET s == to_string_json(LastId)
       IN  shown' = [id |-> LastId, json |-> s, de |-> from_str_json(s)]
    /\ UNCHANGED <<platform, build, store, calls>>

\* the stores a host is reconfigured to between two calls
Reconfigured(def) ==
    CASE def = "windows" ->
           {[registry |-> Err(IoKind("NotFound"))],
            [registry |-> Ok(Hyphenate(Upper(HexB)))]}
      [] def = "linux" ->
           {(PrimaryPath :> Err(IoKind("NotFound"))) @@ (DbusPath :> Ok(HexB \o <<"\n">>)),
            (PrimaryPath :> Ok(Upper(HexA) \o <<"\n">>)) @@ (DbusPath :> Err(IoKind("NotFound")))}
      [] def = "otherunix" ->
           {[kern |-> [r |-> -1, s |-> -1, errno |-> 2, buf |-> <<>>],
             files |-> (HostidPath :> Ok(HexB \o <<"\n">>))],
            [kern |-> [r |-> 0, s |-> 0, errno |-> 0,
                       buf |-> Hyphenate(Upper(HexA)) \o <<"NUL">>],
             files |-> (HostidPath :> Err(IoKind("NotFound")))]}
      [] def = "macos" ->
           {[root |-> MACH_PORT_NULL, prop |-> Null, errno |-> 2],
            [root |-> 7, prop |-> CFString(Hyphenate(Upper(HexB))), errno |-> 1]}

\* the host is reconfigured, once, between two calls
Reconfigure ==
    /\ calls # <<>>
    /\ Len(calls) < MaxCalls
    /\ \A i \in 1..Len(calls) : calls[i].store = store
    /\ \E s \in Reconfigured(build) \ {store} : store' = s
    /\ shown' = None
    /\ UNCHANGED <<platform, build, calls>>

Next ==
    \/ NewWindows
    \/ NewLinux
    \/ NewOtherUnix
    \/ NewMacos
    \/ Fmt
    \/ Serde
    \/ Reconfigure

Spec == Init /\ [][Next]_vars

\* =========================================================== the claims

\* the calls made so far
Made == {calls[i] : i \in 1..Len(calls)}

\* the log entries of a call
Entries(c) == {c.log[k] : k \in 1..Len(c.log)}

\* the texts of the stores that denote an identifier once trailing
\* whitespace is gone, and the identifier each denotes
ValueOf(b) == IF b \in FormsOf(HexA) THEN BytesA ELSE BytesB

\* the canonical texts of the two sample identifiers
CanonA == <<"4","C","4","C","4","5","4","4","-","0","0","4","6","-","3","4","1","0","-",
            "8","0","5","1","-","B","3","C","0","4","F","3","2","5","2","3","3">>
CanonB == <<"A","B","C","D","E","F","1","2","-","3","4","5","6","-","7","8","9","0","-",
            "1","2","3","4","-","5","6","7","8","9","0","1","2","3","4","5","6">>
Canon(id) == IF id = BytesA THEN CanonA ELSE CanonB

\* a log entry whose source produced a raw string
Produced(e) ==
    /\ e.op \in {"MachineGuid", PrimaryPath, DbusPath, HostidPath, "host_uuid"}
    /\ e.res.ok
    /\ e.op = PrimaryPath => e.res.val # <<>>

ProducedCF(e) == e.op = "IORegistryEntryCreateCFProperty" /\ ~e.res.null

\* a call obtained a raw string, and the string
HasRaw(c) == \E e \in Entries(c) : Produced(e) \/ ProducedCF(e)

RawOf(c) ==
    LET e == CHOOSE x \in Entries(c) : Produced(x) \/ ProducedCF(x)
    IN  IF ProducedCF(e) THEN e.res.text ELSE e.res.val

\* whether a file of a store was read by a call
Reads(c, path) == \E e \in Entries(c) : e.op = path

\* ---------------------------------------------------------------- C1

\* C1: on Linux every call reads /etc/machine-id first and once; it reads
\* /var/lib/dbus/machine-id, second and last, exactly when the first read
\* failed or gave zero-length content (content of whitespace alone does not
\* count as empty); an empty first file and a second file holding a valid
\* identifier give that identifier.
C1_LinuxFallbackOrder ==
    build = "linux" =>
      \A c \in Made :
        LET p == c.store[PrimaryPath]
            d == c.store[DbusPath]
        IN  /\ c.log[1] = Did(PrimaryPath, p)
            /\ \A k \in 2..Len(c.log) : c.log[k].op # PrimaryPath
            /\ Reads(c, DbusPath) <=> (~p.ok \/ p.val = <<>>)
            /\ Reads(c, DbusPath) => Len(c.log) = 2 /\ c.log[2] = Did(DbusPath, d)
            /\ ~Reads(c, DbusPath) => Len(c.log) = 1
            /\ (p = Ok(<<>>) /\ d \in {Ok(HexB), Ok(HexB \o <<"\n">>)})
                 => c.result = MachineId(BytesB)

C1_Witness ==
    /\ build = "linux"
    /\ \E c \in Made :
         /\ c.store[PrimaryPath] = Ok(<<>>)
         /\ c.store[DbusPath] = Ok(HexB)
         /\ Len(c.log) = 2
         /\ c.result = MachineId(BytesB)

\* ---------------------------------------------------------------- C2

\* the raw strings of the file and kernel sources that denote an identifier
ValidTrimmed == {b \o t : b \in ValidBodies, t \in Trails(MaxTrail)}

\* C2: on Linux and other POSIX the source that produces a raw string is the
\* last one consulted, and a raw string that is no valid UUID gives
\* Error::InvalidUuid, whatever the next source holds.
C2_ParseFailureTerminal ==
    build \in {"linux", "otherunix"} =>
      \A c \in Made :
        \A k \in 1..Len(c.log) :
          Produced(c.log[k]) =>
            /\ k = Len(c.log)
            /\ c.log[k].res.val \notin ValidTrimmed => c.result = InvalidUuid

C2_Witness ==
    \/ /\ build = "linux"
       /\ \E c \in Made :
            /\ c.store[PrimaryPath] = Ok(SubSeq(HexA, 1, 31) \o <<"\n">>)
            /\ c.store[DbusPath] = Ok(HexB \o <<"\n">>)
            /\ c.result = InvalidUuid
            /\ ~Reads(c, DbusPath)
    \/ /\ build = "otherunix"
       /\ \E c \in Made :
            /\ c.store.kern.buf = SubSeq(HexA, 1, 31) \o <<"NUL">>
            /\ c.store.files[HostidPath] = Ok(HexB \o <<"\n">>)
            /\ c.result = InvalidUuid
            /\ ~Reads(c, HostidPath)

\* ---------------------------------------------------------------- C3

\* every source of the platform's chain failed to produce a raw string
AllSourcesFailed(def, st) ==
    CASE def = "windows"   -> ~st.registry.ok
      [] def = "linux"     -> /\ ~st[PrimaryPath].ok \/ st[PrimaryPath].val = <<>>
                              /\ ~st[DbusPath].ok
      [] def = "otherunix" -> /\ st.kern.r # 0 \/ st.kern.s # 0
                              /\ ~st.files[HostidPath].ok
      [] def = "macos"     -> st.root = MACH_PORT_NULL \/ st.prop.null

\* C3: a call returns a MachineId, an I/O error or an identifier-format
\* error; the I/O error exactly when every source of the chain failed, the
\* format error only when a raw string was obtained, and a MachineId only
\* from a raw string that denotes it, never a default or a partial value.
C3_OutcomeClassification ==
    \A c \in Made :
      /\ c.result.kind \in {"Ok", "IoError", "InvalidUuid"}
      /\ c.result.kind = "IoError" <=> AllSourcesFailed(build, c.store)
      /\ c.result.kind = "IoError" <=> ~HasRaw(c)
      /\ c.result.kind = "InvalidUuid" =>
           /\ HasRaw(c)
           /\ RawOf(c) \notin ValidBodies
      /\ c.result.kind = "Ok" =>
           /\ HasRaw(c)
           /\ LET raw == RawOf(c)
              IN  \E b \in ValidBodies, t \in Trails(MaxTrail) :
                    raw = b \o t /\ c.result.uuid = ValueOf(b)

C3_Witness ==
    /\ build = "linux"
    /\ \E c \in Made :
         /\ c.store[PrimaryPath] = Ok(<<>>)
         /\ c.store[DbusPath] = Err(IoKind("PermissionDenied"))
         /\ c.result = IoError(IoKind("PermissionDenied"))

\* ---------------------------------------------------------------- C4

\* C4, as first stated: one trailing line terminator is trimmed and nothing
\* else, on every platform: a valid UUID and one line feed parses, and a
\* valid UUID followed by any other trailing whitespace does not.
C4_SingleTerminatorEverywhere ==
    \A c \in Made :
      HasRaw(c) =>
        LET raw == RawOf(c)
        IN  \A b \in ValidBodies :
              /\ raw = b \o <<"\n">> => c.result = MachineId(ValueOf(b))
              /\ \A t \in Trails(MaxTrail) \ {<<>>, <<"\n">>} :
                   raw = b \o t => c.result = InvalidUuid

\* C4, amended: on Linux and other POSIX every trailing whitespace character
\* is dropped before parsing, so a valid UUID followed by any run of them
\* parses, and whitespace in front or inside is kept and fails; on Windows
\* and macOS nothing is dropped, so any trailing whitespace fails.
C4_TrimEndOnFileSources ==
    \A c \in Made :
      HasRaw(c) =>
        LET raw == RawOf(c)
        IN  \A t \in Trails(MaxTrail) :
              /\ \A b \in ValidBodies :
                   raw = b \o t =>
                     IF build \in {"linux", "otherunix"} \/ t = <<>>
                     THEN c.result = MachineId(ValueOf(b))
                     ELSE c.result = InvalidUuid
              /\ \A b \in BadBodies : raw = b \o t => c.result = InvalidUuid

C4_Witness ==
    /\ build = "linux"
    /\ \E c \in Made :
         /\ HasRaw(c)
         /\ RawOf(c) = Hyphenate(HexA) \o <<"\n", " ">>
         /\ c.result = MachineId(BytesA)

\* ---------------------------------------------------------------- C5

\* what was printed, or encoded, from a MachineId
Printed == "text" \in DOMAIN shown
Encoded == "json" \in DOMAIN shown

\* a JSON string's content
Unquoted(s) == SubSeq(s, 2, Len(s) - 1)

\* texts of one identifier that differ in case or hyphenation parse to it
SameValueAnyForm ==
    \A c \in Made :
      HasRaw(c) /\ RawOf(c) \in FormsOf(HexA) => c.result = MachineId(BytesA)

\* C5, as first stated: Display and the serde encoding both give the
\* upper-case 8-4-4-4-12 text, decoding it gives the value back, and texts
\* that differ in case or hyphenation give equal values.
C5_UpperCaseInBothForms ==
    /\ Printed => shown.text = Canon(shown.id) /\ parse_str(shown.text) = Ok(shown.id)
    /\ Encoded => Unquoted(shown.json) = Canon(shown.id) /\ shown.de = Ok(shown.id)
    /\ SameValueAnyForm

\* C5, amended: Display gives the upper-case 8-4-4-4-12 text; the serde
\* encoding is the same grouping in lower case, as a JSON string; decoding
\* either gives the value back; texts that differ in case or hyphenation
\* give equal values.
C5_RoundTripCanonical ==
    /\ Printed => shown.text = Canon(shown.id) /\ parse_str(shown.text) = Ok(shown.id)
    /\ Encoded =>
         /\ Upper(Unquoted(shown.json)) = Canon(shown.id)
         /\ \A k \in 1..Len(shown.json) : shown.json[k] \notin {"A", "B", "C", "D", "E", "F"}
         /\ shown.de = Ok(shown.id)
    /\ SameValueAnyForm

C5_Witness ==
    /\ Printed
    /\ shown.text = CanonA
    /\ \E c \in Made : HasRaw(c) /\ RawOf(c) = Hyphenate(HexA) \o <<"\n">>

\* ---------------------------------------------------------------- C6

Releases(c, h) ==
    Cardinality({k \in 1..Len(c.log) : c.log[k] = Did("IOObjectRelease", h)})

\* C7: on macOS a call that got a non-null root handle releases that handle
\* exactly once, whether the property is absent, fails to parse or parses,
\* and releases nothing else; a call that got the null handle releases
\* nothing and returns the I/O error of the last OS error.
C7_ReleaseExactlyOnce ==
    build = "macos" =>
      \A c \in Made :
        /\ \A e \in Entries(c) : e.op = "IOObjectRelease" => e.res = c.store.root
        /\ c.store.root # MACH_PORT_NULL => Releases(c, c.store.root) = 1
        /\ c.store.root = MACH_PORT_NULL =>
             /\ Releases(c, c.store.root) = 0
             /\ c.result = IoError(RawOsError(c.store.errno))

C7_Witness ==
    /\ build = "macos"
    /\ \E c \in Made :
         /\ c.store.root # MACH_PORT_NULL
         /\ c.store.prop.null
         /\ c.result.kind = "IoError"
         /\ Releases(c, c.store.root) = 1

\* ---------------------------------------------------------------- C8

\* C8: every target selects exactly one definition of MachineId::new, and
\* Windows and macOS select their single-source definition.
C8_OneDefinitionPerTarget ==
    /\ Cardinality(Selected(platform)) = 1
    /\ platform.os = "windows" => build = "windows"
    /\ platform.os = "macos" => build = "macos"
    /\ platform.os = "linux" => build = "linux"

\* ---------------------------------------------------------------- C9

\* what unix::host_uuid gave a call
AdapterResult(c) == (CHOOSE e \in Entries(c) : e.op = "host_uuid").res

\* C9: the size query with a null buffer comes first and the read follows
\* only when it returned 0; a query that returns non-zero makes the adapter
\* fail with the OS error code of that failure (errno); on success the
\* string is the buffer up to its first NUL.
C9_KernelAdapter ==
    build = "otherunix" =>
      \A c \in Made :
        LET kern == c.store.kern
        IN  /\ c.log[1] = Did("sysctl(null)", kern.r)
            /\ Did("sysctl(buffer)", kern.s) \in Entries(c) <=> kern.r = 0
            /\ (kern.r # 0 \/ kern.s # 0) =>
                 AdapterResult(c) = Err(RawOsError(kern.errno))
            /\ (kern.r = 0 /\ kern.s = 0) =>
                 /\ AdapterResult(c).ok
                 /\ "NUL" \notin {AdapterResult(c).val[k] : k \in 1..Len(AdapterResult(c).val)}
                 /\ \/ AdapterResult(c).val = kern.buf
                    \/ /\ Len(AdapterResult(c).val) < Len(kern.buf)
                       /\ kern.buf[Len(AdapterResult(c).val) + 1] = "NUL"
                       /\ AdapterResult(c).val = SubSeq(kern.buf, 1, Len(AdapterResult(c).val))

\* --------------------------------------------------------------- C10

\* C10: on other POSIX the kernel is queried first; /etc/hostid is read,
\* last, exactly when the kernel query failed, whatever its error; when both
\* fail the error returned is the file's, not the kernel's.
C10_OtherUnixChain ==
    build = "otherunix" =>
      \A c \in Made :
        LET kern == c.store.kern
            file == c.store.files[HostidPath]
            failed == kern.r # 0 \/ kern.s # 0
        IN  /\ c.log[1].op = "sysctl(null)"
            /\ Reads(c, HostidPath) <=> failed
            /\ Reads(c, HostidPath) => c.log[Len(c.log)] = Did(HostidPath, file)
            /\ (failed /\ ~file.ok) => c.result = IoError(file.err)
            /\ ~failed => c.result.kind # "IoError"

C10_Witness ==
    /\ build = "otherunix"
    /\ \E c \in Made :
         /\ c.store.kern.r # 0
         /\ c.store.files[HostidPath] = Err(IoKind("NotFound"))
         /\ Reads(c, HostidPath)
         /\ c.result = IoError(IoKind("NotFound"))

====
